---- MODULE Spec2Model ----
(***************************************************************************)
(* The fetch / queue / delivery orchestration of src/bot.py: the           *)
(* per-consumer session kept in user_state, the refill coroutine           *)
(* search_and_enqueue_more, the block sender send_block and the two        *)
(* handlers handle_search and more_callback.                               *)
(*                                                                         *)
(* The program runs on one asyncio event loop: code between two awaits is  *)
(* one atomic step, and every await of network I/O or of asyncio.sleep is  *)
(* a point where any other coroutine may run.  A coroutine is a record in  *)
(* the bag tasks; its pc names the source line of the await it is          *)
(* suspended at.                                                           *)
(***************************************************************************)
EXTENDS Integers, Sequences, FiniteSets, Bags, TLC

VARIABLES
    user_state,   \* bot.py:33   consumer id -> session (a dict: absent ids have no entry)
    tasks,        \* the coroutines alive on the event loop (a bag of records)
    env,          \* the run's environment: who sends how many queries, how many updates
                  \* are handled at once, what the search page can show
    delivered,    \* history variable: per consumer, what was popped into blocks since the last query
                  \* change, and whether the Fetcher has been invoked since then
    last          \* history variable: what the most recent step did and told the consumer

vars == <<user_state, tasks, env, delivered, last>>

-----------------------------------------------------------------------------
(* Program constants *)

BLOCK_SIZE == 5
MIN_QUEUE_THRESHOLD == 8
MAX_FETCH_ATTEMPTS == 3
\* send_block polls every 0.5 s while waited < 5.0: ten sleeps at most
WAIT_POLLS == 10

(* Bounds of the model *)

MaxQueries == 3      \* text queries one consumer sends in a run
MaxHandlers == 1     \* handler coroutines alive at the same time (one more in the racing run)
MaxScheduled == 1    \* a new update is taken only with fewer refill tasks than this not yet started
SmallPage == 3       \* length of the short result page
LargePage == 12      \* length of the long result page

Users == {"u1", "u2"}
Queries == {"cats", "dogs"}
None == "None"

Min(a, b) == IF a < b THEN a ELSE b
Range(s) == {s[i] : i \in 1..Len(s)}
Run(n) == [i \in 1..n |-> i]

\* What one request to the search page can show: nothing, a page with a
\* repeated and out-of-order item, a short page, a long page, a page with
\* one item more than the long page had.
ShortPages == {<<>>, <<2, 1, 2>>, Run(SmallPage)}
LongPages == {Run(LargePage), <<LargePage + 1>>}

\* The runs that are explored: one consumer sending queries and pressing the
\* button, one update at a time; the same with two updates handled at once;
\* one consumer sending the same text again, with long result pages; two
\* consumers with one query each.
Environments ==
    {[quota |-> [u \in Users |-> IF u = "u1" THEN MaxQueries ELSE 0],
      handlers |-> MaxHandlers, pages |-> ShortPages, queries |-> Queries],
     [quota |-> [u \in Users |-> IF u = "u1" THEN MaxQueries - 1 ELSE 0],
      handlers |-> MaxHandlers + 1, pages |-> {<<>>, <<2, 1, 2>>},
      queries |-> Queries],
     [quota |-> [u \in Users |-> IF u = "u1" THEN MaxQueries - 1 ELSE 0],
      handlers |-> MaxHandlers, pages |-> LongPages, queries |-> {"cats"}],
     [quota |-> [u \in Users |-> MaxQueries - 2],
      handlers |-> MaxHandlers, pages |-> {<<>>, <<2, 1, 2>>},
      queries |-> Queries]}


-----------------------------------------------------------------------------
(* Sessions and coroutines *)

\* The dict handle_search installs with setdefault for a consumer's first query
NewSession(q) ==
    [query |-> q, queue |-> <<>>, shown |-> {}, history |-> <<>>,
     is_fetching |-> FALSE, fetch_attempts |-> 0, fetch_exhausted |-> FALSE,
     next_bookmark |-> None]

\* A coroutine on the event loop.  kind is "search" (handle_search), "more"
\* (more_callback) or "refill" (a task made by asyncio.create_task); query
\* and new_imgs are the locals of search_and_enqueue_more, to_send,
\* success_count and waited the locals of send_block.  ran is the event
\* loop's bookkeeping, see Settle.  popped, tried and faulted are history:
\* the block as it was popped, the items send_photo has been called for so
\* far, whether the Fetcher call in progress hit a fault.
Coroutine(kind, u, pc) ==
    [kind |-> kind, user |-> u, pc |-> pc, query |-> "", new_imgs |-> <<>>,
     to_send |-> <<>>, success_count |-> 0, waited |-> 0, ran |-> FALSE,
     popped |-> <<>>, tried |-> <<>>, faulted |-> FALSE]

Returned(t) == [t EXCEPT !.pc = "done"]

Copies(e, n) == IF n = 0 THEN EmptyBag ELSE [x \in {e} |-> n]

Handlers == {t \in DOMAIN tasks : t.kind \in {"search", "more"}}
LiveHandlers == BagCardinality([t \in Handlers |-> tasks[t]])
NotStarted == {t \in DOMAIN tasks : t.pc = "L223"}
Scheduled == BagCardinality([t \in NotStarted |-> tasks[t]])

\* What a synchronous stretch of code leaves behind: the session, the
\* coroutine (pc "done" when it returned), the message it sent, the block it
\* popped, how many refill tasks it created, whether it invoked the Fetcher.
Outcome(st, t) ==
    [st |-> st, task |-> t, msg |-> "none", block |-> <<>>, spawned |-> 0,
     launched |-> FALSE]

Event(op, u) ==
    [op |-> op, user |-> u, text |-> "", msg |-> "none", block |-> <<>>,
     spawned |-> 0, launched |-> FALSE, waited |-> 0, fetched |-> 0,
     merged |-> 0, stale |-> FALSE, sent |-> 0, done |-> FALSE,
     popped |-> <<>>, tried |-> <<>>, faulted |-> FALSE]

-----------------------------------------------------------------------------
(* fetch_images_from_pinterest_api and parse_html_images *)

\* The URLs of a page that are not in already_seen, in page order; each one
\* is added to already_seen as it is taken, so a repeat within the page is
\* dropped too.
RECURSIVE FilterNew(_, _)
FilterNew(page, already_seen) ==
    IF page = <<>> THEN <<>>
    ELSE IF Head(page) \notin already_seen
         THEN <<Head(page)>> \o FilterNew(Tail(page), already_seen \cup {Head(page)})
         ELSE FilterNew(Tail(page), already_seen)

\* The response has arrived and is parsed.  already_seen is the session's
\* shown set itself (passed by reference at line 247), so the new URLs are in
\* shown from here on.  The return statements sit inside two `async with`
\* blocks (lines 71-72): leaving them awaits the response's and the client
\* session's __aexit__, so the caller resumes in a later step.
Respond(st, t, page) ==
    LET imgs == FilterNew(page, st.shown)
    IN  Outcome([st EXCEPT !.shown = @ \cup Range(imgs)],
                [t EXCEPT !.pc = "L252", !.new_imgs = imgs])

\* Non-200 status, timeout or any exception: ([], None), already_seen untouched
Fault(st, t) ==
    Outcome(st, [t EXCEPT !.pc = "L252", !.new_imgs = <<>>, !.faulted = TRUE])

-----------------------------------------------------------------------------
(* search_and_enqueue_more *)

\* StartFetch without the in-flight check of lines 231-232
StartFetch_NoMutex(st, t) ==
    IF st.fetch_attempts >= MAX_FETCH_ATTEMPTS
    THEN [st |-> [st EXCEPT !.fetch_exhausted = TRUE], task |-> t, msg |-> "none",
          block |-> <<>>, spawned |-> 0, launched |-> FALSE]
    ELSE [st |-> [st EXCEPT !.is_fetching = TRUE],
          task |-> [t EXCEPT !.pc = "L245", !.query = st.query], msg |-> "none",
          block |-> <<>>, spawned |-> 0, launched |-> TRUE]

\* StartFetch that returns at line 236 without line 235
StartFetch_SilentBudget(st, t) ==
    IF st.is_fetching \/ st.fetch_attempts >= MAX_FETCH_ATTEMPTS
    THEN [st |-> st, task |-> t, msg |-> "none", block |-> <<>>, spawned |-> 0,
          launched |-> FALSE]
    ELSE [st |-> [st EXCEPT !.is_fetching = TRUE],
          task |-> [t EXCEPT !.pc = "L245", !.query = st.query], msg |-> "none",
          block |-> <<>>, spawned |-> 0, launched |-> TRUE]

\* StartFetch without the budget check of lines 234-236
StartFetch_NoBudget(st, t) ==
    IF st.is_fetching
    THEN [st |-> st, task |-> t, msg |-> "none", block |-> <<>>, spawned |-> 0,
          launched |-> FALSE]
    ELSE [st |-> [st EXCEPT !.is_fetching = TRUE],
          task |-> [t EXCEPT !.pc = "L245", !.query = st.query], msg |-> "none",
          block |-> <<>>, spawned |-> 0, launched |-> TRUE]

\* Lines 231-239, up to the await of the Fetcher.  (The `if not state` return
\* of line 228 cannot be taken: every caller runs after handle_search made
\* the session, and sessions are never removed.)
StartFetch(st, t) ==
    IF st.is_fetching THEN Outcome(st, t)
    ELSE IF st.fetch_attempts >= MAX_FETCH_ATTEMPTS
         THEN Outcome([st EXCEPT !.fetch_exhausted = TRUE], t)
         ELSE [Outcome([st EXCEPT !.is_fetching = TRUE],
                       [t EXCEPT !.pc = "L245", !.query = st.query])
                 EXCEPT !.launched = TRUE]

\* Lines 254-261: append what is not queued yet, in arrival order
RECURSIVE Enqueue(_, _)
Enqueue(queue, new_imgs) ==
    IF new_imgs = <<>> THEN queue
    ELSE Enqueue(IF Head(new_imgs) \in Range(queue) THEN queue
                 ELSE Append(queue, Head(new_imgs)),
                 Tail(new_imgs))

\* Merge that takes any fetched item, merged or not, for a success
Merge_CountsFetched(st, new_imgs) ==
    [st EXCEPT !.next_bookmark = None,
               !.queue = Enqueue(st.queue, new_imgs),
               !.fetch_attempts = IF new_imgs = <<>> THEN @ + 1 ELSE 0,
               !.is_fetching = FALSE]

\* Merge that counts no failure when nothing was appended
Merge_ForgivesEmpty(st, new_imgs) ==
    [st EXCEPT !.next_bookmark = None,
               !.queue = Enqueue(st.queue, new_imgs),
               !.fetch_attempts = IF Enqueue(st.queue, new_imgs) = st.queue THEN @ ELSE 0,
               !.is_fetching = FALSE]

\* Merge without the finally clause of line 274
Merge_KeepsMarker(st, new_imgs) ==
    [st EXCEPT !.next_bookmark = None,
               !.queue = Enqueue(st.queue, new_imgs),
               !.fetch_attempts = IF Enqueue(st.queue, new_imgs) = st.queue THEN @ + 1 ELSE 0]

\* Lines 252-274, after the Fetcher returned
Merge(st, new_imgs) ==
    LET queue == Enqueue(st.queue, new_imgs)
        appended == Len(queue) - Len(st.queue)
    IN  [st EXCEPT !.next_bookmark = None,
                   !.queue = queue,
                   !.fetch_attempts = IF appended = 0 THEN @ + 1 ELSE 0,
                   !.is_fetching = FALSE]

-----------------------------------------------------------------------------
(* send_block *)

\* The condition of lines 286 and 405
RefillWanted(st) ==
    /\ Len(st.queue) < MIN_QUEUE_THRESHOLD
    /\ ~st.is_fetching
    /\ ~st.fetch_exhausted

\* TakeBlock whose loop tests len(to_send) <= BLOCK_SIZE
TakeBlock_OneMore(queue) ==
    LET n == Min(Len(queue), BLOCK_SIZE + 1)
    IN  [to_send |-> SubSeq(queue, 1, n), queue |-> SubSeq(queue, n + 1, Len(queue))]

\* Lines 316-318: the block and what stays queued
TakeBlock(queue) ==
    LET n == Min(Len(queue), BLOCK_SIZE)
    IN  [to_send |-> SubSeq(queue, 1, n), queue |-> SubSeq(queue, n + 1, Len(queue))]

\* Lines 295-318: report an empty queue, or pop a block and start sending it
FromQueue(st, t) ==
    IF st.queue = <<>>
    THEN [Outcome(st, Returned(t))
            EXCEPT !.msg = IF st.shown = {} THEN "not_found" ELSE "no_more"]
    ELSE LET b == TakeBlock(st.queue)
         IN  [Outcome([st EXCEPT !.queue = b.queue],
                      [t EXCEPT !.pc = "L323", !.to_send = b.to_send,
                                !.success_count = 0, !.waited = 0,
                                !.popped = b.to_send, !.tried = <<>>])
                EXCEPT !.block = b.to_send]

\* Lines 286-293: the refill trigger, then either the first sleep of the wait
\* loop or straight on to line 295
SendBlock(st, t) ==
    LET spawned == IF RefillWanted(st) THEN 1 ELSE 0
    IN  IF st.queue = <<>> /\ st.is_fetching
        THEN Outcome(st, [t EXCEPT !.pc = "L292", !.waited = 0])
        ELSE [FromQueue(st, t) EXCEPT !.spawned = spawned]

\* Lines 291-293, when a sleep of the wait loop returns
Wake(st, t) ==
    LET waited == t.waited + 1
    IN  IF waited < WAIT_POLLS /\ st.queue = <<>>
        THEN Outcome(st, [t EXCEPT !.waited = waited])
        ELSE FromQueue(st, [t EXCEPT !.waited = waited])

\* NextItem that offers the button after every block with a photo sent
NextItem_IgnoresExhausted(st, t) ==
    IF Len(t.to_send) > 1
    THEN [st |-> st, task |-> [t EXCEPT !.pc = "L323", !.to_send = Tail(@)],
          msg |-> "none", block |-> <<>>, spawned |-> 0, launched |-> FALSE]
    ELSE [st |-> st, task |-> [t EXCEPT !.pc = "done"],
          msg |-> IF t.success_count > 0 THEN "offer_more" ELSE "none",
          block |-> <<>>, spawned |-> 0, launched |-> FALSE]

\* Lines 321 and 334-342: the next photo of the block, or the end of the block
NextItem(st, t) ==
    IF Len(t.to_send) > 1
    THEN Outcome(st, [t EXCEPT !.pc = "L323", !.to_send = Tail(@)])
    ELSE [Outcome(st, Returned(t))
            EXCEPT !.msg = IF t.success_count > 0 /\ ~st.fetch_exhausted
                           THEN "offer_more" ELSE "none"]

\* Lines 323-325: send_photo returned
PhotoSent(st, t) ==
    NextItem([st EXCEPT !.shown = @ \cup {Head(t.to_send)}],
             [t EXCEPT !.success_count = @ + 1,
                       !.tried = Append(@, Head(t.to_send))])

\* Lines 326-330: send_photo raised; the URL goes out as text instead
PhotoFailed(st, t) ==
    Outcome(st, [t EXCEPT !.pc = "L330", !.tried = Append(@, Head(t.to_send))])

-----------------------------------------------------------------------------
(* handle_search and more_callback *)

\* SetQuery that resets the session on every text message
SetQuery_AlwaysResets(st, query) ==
    [st EXCEPT !.query = query, !.queue = <<>>, !.shown = {},
               !.fetch_attempts = 0, !.fetch_exhausted = FALSE,
               !.next_bookmark = None, !.history = Append(@, query)]

\* SetQuery without line 373
SetQuery_KeepsShown(st, query) ==
    LET st1 == IF st.query # query
               THEN [st EXCEPT !.query = query, !.queue = <<>>,
                               !.fetch_attempts = 0, !.fetch_exhausted = FALSE,
                               !.next_bookmark = None]
               ELSE st
    IN  [st1 EXCEPT !.history = Append(@, query)]

\* SetQuery without line 375
SetQuery_KeepsExhausted(st, query) ==
    LET st1 == IF st.query # query
               THEN [st EXCEPT !.query = query, !.queue = <<>>, !.shown = {},
                               !.fetch_attempts = 0, !.next_bookmark = None]
               ELSE st
    IN  [st1 EXCEPT !.history = Append(@, query)]

\* Lines 370-378
SetQuery(st, query) ==
    LET st1 == IF st.query # query
               THEN [st EXCEPT !.query = query, !.queue = <<>>, !.shown = {},
                               !.fetch_attempts = 0, !.fetch_exhausted = FALSE,
                               !.next_bookmark = None]
               ELSE st
    IN  [st1 EXCEPT !.history = Append(@, query)]

\* Lines 384-388
AfterSearch(st, t) ==
    IF st.queue = <<>>
    THEN [Outcome(st, Returned(t)) EXCEPT !.msg = "nothing_found"]
    ELSE SendBlock(st, t)

\* Line 382 and on: search_and_enqueue_more is awaited in the handler itself
SearchNow(st, t) ==
    LET r == StartFetch(st, t)
    IN  IF r.launched THEN r ELSE AfterSearch(r.st, t)

\* Lines 403-408: the handler's own trigger, then send_block with its trigger
MoreNow(st, t) ==
    LET r == SendBlock(st, t)
    IN  [r EXCEPT !.spawned = @ + IF RefillWanted(st) THEN 1 ELSE 0]

-----------------------------------------------------------------------------
(* The steps of the event loop *)

Init ==
    /\ user_state = [u \in {} |-> NewSession("")]
    /\ tasks = EmptyBag
    /\ env \in Environments
    /\ delivered = [u \in Users |-> [once |-> {}, twice |-> {}, attempted |-> FALSE]]
    /\ last = Event("init", "u1")

\* The popped block enters the record of what was delivered in this query lifetime
Record(d, block) ==
    [d EXCEPT !.once = d.once \cup Range(block),
              !.twice = d.twice \cup (d.once \cap Range(block))]

\* The event loop runs its ready callbacks first in, first out, and a
\* coroutine that suspended on I/O or on a sleep is woken in a later turn of
\* the loop at the earliest.  So between asyncio.create_task and the first
\* turn of the task it made, a coroutine that has already run cannot run
\* again: ran marks those, and the marks go when no made task is waiting.
Rested(t) == [t EXCEPT !.ran = FALSE]
Settle(bag) ==
    IF \E t \in DOMAIN bag : t.pc = "L223" THEN bag ELSE BagOfAll(Rested, bag)

\* Coroutine t ran one synchronous stretch of code, which left r behind
Commit(t, r, e) ==
    /\ ~t.ran
    /\ user_state' = [user_state EXCEPT ![t.user] = r.st]
    /\ tasks' = Settle((tasks (-) SetToBag({t}))
                       (+) (IF r.task.pc = "done" THEN EmptyBag
                            ELSE SetToBag({[r.task EXCEPT !.ran = TRUE]}))
                       (+) Copies(Coroutine("refill", t.user, "L223"), r.spawned))
    /\ delivered' = [delivered EXCEPT ![t.user] =
                         [Record(@, r.block) EXCEPT !.attempted = @ \/ r.launched]]
    /\ last' = [e EXCEPT !.msg = r.msg, !.block = r.block, !.spawned = r.spawned,
                         !.launched = r.launched, !.waited = r.task.waited,
                         !.sent = r.task.success_count, !.done = (r.task.pc = "done"),
                         !.popped = r.task.popped, !.tried = r.task.tried]
    /\ UNCHANGED env

\* An update may be taken: the bounds on what is alive on the loop
MayArrive(u) ==
    /\ env.quota[u] > 0
    /\ LiveHandlers < env.handlers
    /\ Scheduled < MaxScheduled

\* handle_search whose reset of lines 370-376 reaches every session
handle_search_ResetsAll(u, query) ==
    /\ MayArrive(u)
    /\ u \in DOMAIN user_state => Len(user_state[u].history) < env.quota[u]
    /\ LET st == IF u \in DOMAIN user_state THEN user_state[u] ELSE NewSession(query)
       IN  /\ user_state' = [v \in DOMAIN user_state \cup {u} |->
                                IF v = u THEN SetQuery(st, query)
                                ELSE [user_state[v] EXCEPT !.queue = <<>>, !.shown = {}]]
           /\ delivered' = [delivered EXCEPT ![u] =
                                IF st.query # query
                                THEN [once |-> {}, twice |-> {}, attempted |-> FALSE]
                                ELSE @]
    /\ tasks' = Settle(tasks (+) SetToBag({[Coroutine("search", u, "L380") EXCEPT !.ran = TRUE]}))
    /\ last' = [Event("handle_search", u) EXCEPT !.text = query, !.msg = "searching"]
    /\ UNCHANGED env

\* handle_search, lines 353-380: a text message arrives
handle_search(u, query) ==
    /\ MayArrive(u)
    /\ u \in DOMAIN user_state => Len(user_state[u].history) < env.quota[u]
    /\ LET st == IF u \in DOMAIN user_state THEN user_state[u] ELSE NewSession(query)
       IN  /\ user_state' = [v \in DOMAIN user_state \cup {u} |->
                                IF v = u THEN SetQuery(st, query) ELSE user_state[v]]
           /\ delivered' = [delivered EXCEPT ![u] =
                                IF st.query # query
                                THEN [once |-> {}, twice |-> {}, attempted |-> FALSE]
                                ELSE @]
    /\ tasks' = Settle(tasks (+) SetToBag({[Coroutine("search", u, "L380") EXCEPT !.ran = TRUE]}))
    /\ last' = [Event("handle_search", u) EXCEPT !.text = query, !.msg = "searching"]
    /\ UNCHANGED env

\* handle_search, line 382 and on: the acknowledgement is out
search_continue(t) ==
    /\ t.kind = "search" /\ t.pc = "L380"
    /\ Commit(t, SearchNow(user_state[t.user], t), Event("search_continue", t.user))

\* more_callback, lines 392-394: the button is pressed
more_callback(u) ==
    /\ MayArrive(u)
    /\ tasks' = Settle(tasks (+) SetToBag({[Coroutine("more", u, "L394") EXCEPT !.ran = TRUE]}))
    /\ last' = Event("more_callback", u)
    /\ UNCHANGED <<user_state, env, delivered>>

\* more_callback, lines 396-408: callback.answer() returned
more_continue(t) ==
    /\ t.kind = "more" /\ t.pc = "L394"
    /\ IF t.user \in DOMAIN user_state
       THEN Commit(t, MoreNow(user_state[t.user], t), Event("more_continue", t.user))
       ELSE /\ ~t.ran
            /\ tasks' = Settle(tasks (-) SetToBag({t}))
            /\ last' = [Event("more_continue", t.user) EXCEPT !.msg = "send_first"]
            /\ UNCHANGED <<user_state, env, delivered>>

\* A task made by create_task gets its first turn: lines 227-239
refill_start(t) ==
    /\ t.kind = "refill" /\ t.pc = "L223"
    /\ LET r == StartFetch(user_state[t.user], t)
       IN  Commit(t, IF r.launched THEN r ELSE [r EXCEPT !.task = Returned(t)],
                  Event("refill_start", t.user))

\* The search page answers with a page of results
fetch_page(t, page) ==
    /\ t.pc = "L245"
    /\ Commit(t, Respond(user_state[t.user], t, page), Event("fetch_page", t.user))

\* The request to the search page fails
fetch_fault(t) ==
    /\ t.pc = "L245"
    /\ Commit(t, Fault(user_state[t.user], t), Event("fetch_fault", t.user))

\* search_and_enqueue_more resumes with the Fetcher's result: lines 252-274,
\* and in handle_search lines 384-388 right after
fetch_complete(t) ==
    /\ t.pc = "L252"
    /\ LET st == user_state[t.user]
           merged == Merge(st, t.new_imgs)
           back == [t EXCEPT !.query = "", !.new_imgs = <<>>, !.faulted = FALSE]
           e == [Event("fetch_complete", t.user)
                   EXCEPT !.fetched = Len(t.new_imgs),
                          !.merged = Len(merged.queue) - Len(st.queue),
                          !.stale = (t.query # st.query),
                          !.faulted = t.faulted]
       IN  Commit(t, IF t.kind = "search" THEN AfterSearch(merged, back)
                     ELSE Outcome(merged, Returned(back)), e)

\* A sleep of send_block's wait loop is over
wake(t) ==
    /\ t.pc = "L292"
    /\ Commit(t, Wake(user_state[t.user], t), Event("wake", t.user))

\* bot.send_photo returns
photo_sent(t) ==
    /\ t.pc = "L323"
    /\ Commit(t, PhotoSent(user_state[t.user], t), Event("photo_sent", t.user))

\* bot.send_photo raises
photo_failed(t) ==
    /\ t.pc = "L323"
    /\ Commit(t, PhotoFailed(user_state[t.user], t), Event("photo_failed", t.user))

\* The textual fallback of a failed photo is out (or failed too: line 331)
fallback_done(t) ==
    /\ t.pc = "L330"
    /\ Commit(t, NextItem(user_state[t.user], t), Event("fallback_done", t.user))

Next ==
    \/ \E u \in Users, query \in env.queries : handle_search(u, query)
    \/ \E u \in Users : more_callback(u)
    \/ \E t \in DOMAIN tasks :
          \/ search_continue(t)
          \/ more_continue(t)
          \/ refill_start(t)
          \/ \E page \in env.pages : fetch_page(t, page)
          \/ fetch_fault(t)
          \/ fetch_complete(t)
          \/ wake(t)
          \/ photo_sent(t)
          \/ photo_failed(t)
          \/ fallback_done(t)

Spec == Init /\ [][Next]_vars

\* The run of one consumer with short pages, under the event loop's
\* scheduling: a task made by create_task gets its turn, the request to the
\* search page ends (it has a timeout of 30 s, line 72) and the coroutine
\* that awaited it is resumed.
FairInit == Init /\ env.pages = ShortPages
FetchStep(u) ==
    \E t \in DOMAIN tasks :
        /\ t.user = u
        /\ \/ \E page \in env.pages : fetch_page(t, page)
           \/ fetch_fault(t)
           \/ fetch_complete(t)
FairSpec ==
    /\ FairInit /\ [][Next]_vars
    /\ WF_vars(\E t \in DOMAIN tasks : refill_start(t))
    /\ \A u \in Users : WF_vars(FetchStep(u))

-----------------------------------------------------------------------------
(* Properties *)

HasSession(u) == u \in DOMAIN user_state
EmptyMsgs == {"nothing_found", "not_found", "no_more"}

\* The coroutines of consumer u that are inside the Fetcher
InFetcher(u) == {t \in DOMAIN tasks : t.user = u /\ t.pc \in {"L245", "L252"}}
Fetching(u) == BagCardinality([t \in InFetcher(u) |-> tasks[t]])

\* C1 - Query isolation: a fetch that completes after the session's query has
\* changed from the one it was launched for changes none of the session's
\* queue, shown, cursor and failure streak.
C1_StaleFetchDropped ==
    [][(last'.op = "fetch_complete" /\ last'.stale) =>
          LET u == last'.user
          IN  /\ user_state'[u].queue = user_state[u].queue
              /\ user_state'[u].shown = user_state[u].shown
              /\ user_state'[u].next_bookmark = user_state[u].next_bookmark
              /\ user_state'[u].fetch_attempts = user_state[u].fetch_attempts]_vars

\* C2 - Dedup invariant: between two query changes of a session no item is
\* popped into a delivered block twice.
C2_NoDuplicateDelivery == \A u \in Users : delivered[u].twice = {}

\* C3 - At-most-one-fetch: at no time are two coroutines of one consumer
\* inside the Fetcher.
C3_AtMostOneFetch == \A u \in Users : Fetching(u) <= 1

\* A refill task found the fetch of an earlier trigger in flight and gave up
C3_Witness ==
    /\ last.op = "refill_start"
    /\ ~last.launched
    /\ \E t \in InFetcher(last.user) : t.kind = "refill"

\* A refill attempt: search_and_enqueue_more ran its entry checks for u
RefillAttempt(e, u) == e.user = u /\ e.op \in {"search_continue", "refill_start"}

C5_StreakArithmetic ==
    [][\A u \in DOMAIN user_state :
          LET a == user_state[u]
              b == user_state'[u]
          IN  IF last'.user = u /\ last'.op = "fetch_complete"
              THEN b.fetch_attempts = IF last'.merged >= 1 THEN 0 ELSE a.fetch_attempts + 1
              ELSE IF last'.user = u /\ last'.op = "handle_search" /\ last'.text # a.query
                   THEN b.fetch_attempts = 0
                   ELSE b.fetch_attempts = a.fetch_attempts]_vars

\* A completion whose items were all queued already counted as a failure
C5_Witness ==
    /\ last.op = "fetch_complete"
    /\ last.fetched > 0
    /\ last.merged = 0
    /\ user_state[last.user].fetch_attempts > 0

\* C6 - Exhaustion is terminal for the current query: once exhausted is true
\* it stays true and no step invokes the Fetcher for the session, until a
\* text query different from the current one arrives.
C6_ExhaustedIsTerminal ==
    [][\A u \in DOMAIN user_state :
          user_state[u].fetch_exhausted =>
              \/ /\ last'.op = "handle_search"
                 /\ last'.user = u
                 /\ last'.text # user_state[u].query
              \/ /\ user_state'[u].fetch_exhausted
                 /\ ~(last'.user = u /\ last'.launched)]_vars

\* The same query text has just been sent again to an exhausted session
C6_Witness ==
    /\ last.op = "handle_search"
    /\ user_state[last.user].fetch_exhausted

\* C7 - setQuery effect: a text query different from the current one leaves
\* queue and shown empty, the cursor absent, the streak 0, exhausted false and
\* query equal to the text; an equal one leaves all of them as they were;
\* both append the text to history and keep the earlier entries.
C7_SetQueryEffect ==
    [][last'.op = "handle_search" =>
          LET u == last'.user
              text == last'.text
              b == user_state'[u]
          IN  IF HasSession(u)
              THEN LET a == user_state[u]
                   IN  /\ b.history = Append(a.history, text)
                       /\ b.query = text
                       /\ IF a.query # text
                          THEN /\ b.queue = <<>>
                               /\ b.shown = {}
                               /\ b.next_bookmark = None
                               /\ b.fetch_attempts = 0
                               /\ b.fetch_exhausted = FALSE
                          ELSE /\ b.queue = a.queue
                               /\ b.shown = a.shown
                               /\ b.next_bookmark = a.next_bookmark
                               /\ b.fetch_attempts = a.fetch_attempts
                               /\ b.fetch_exhausted = a.fetch_exhausted
              ELSE b = [NewSession(text) EXCEPT !.history = <<text>>]]_vars

\* The query has just changed while a fetch for the previous one is in flight
C7_Witness ==
    /\ last.op = "handle_search"
    /\ LET st == user_state[last.user]
           n == Len(st.history)
       IN  /\ n >= 2
           /\ st.history[n - 1] # st.history[n]
           /\ st.is_fetching
           /\ st.queue = <<>> /\ st.shown = {}

\* A fetch for u is pending: one is in flight, or a refill task made for u
\* is about to launch one
FetchPending(u) ==
    \/ user_state[u].is_fetching
    \/ /\ \E t \in NotStarted : t.user = u
       /\ user_state[u].fetch_attempts < MAX_FETCH_ATTEMPTS

\* C8 - Bounded wait before Empty: a request reports an empty outcome while a
\* fetch for the session is pending only after the wait of WAIT_POLLS sleeps
\* has elapsed.
C8_WaitBeforeEmpty ==
    (last.msg \in EmptyMsgs /\ FetchPending(last.user)) => last.waited = WAIT_POLLS

\* The queue that lines 295-318 find in the step just taken: for a fetch
\* completion inside handle_search it is the queue with the fetched items
\* merged, otherwise the queue as it was.
QueueAtRequest(u) ==
    IF last'.op = "fetch_complete"
    THEN Enqueue(user_state[u].queue,
                 (CHOOSE t \in InFetcher(u) : t.pc = "L252").new_imgs)
    ELSE user_state[u].queue

\* The step just taken for u is one in which a non-empty queue is popped:
\* send_block entered or woken, or handle_search past its own fetch (skipped
\* at lines 231-236, or completed)
ReachedQueue(u) ==
    \/ last'.op \in {"more_continue", "wake"}
    \/ /\ last'.op = "search_continue"
       /\ \/ user_state[u].is_fetching
          \/ user_state[u].fetch_attempts >= MAX_FETCH_ATTEMPTS
    \/ /\ last'.op = "fetch_complete"
       /\ \E t \in InFetcher(u) : t.pc = "L252" /\ t.kind = "search"

\* C9 - Block delivery: a block request on a queue of n >= 1 items pops
\* exactly its first min(n, BLOCK_SIZE) items, in queue order, and leaves the
\* other items queued in their order; nothing else pops items.
C9_BlockDelivery ==
    [][\A u \in DOMAIN user_state :
          last'.user = u =>
              LET queue == QueueAtRequest(u)
                  n == Len(queue)
                  k == Min(n, BLOCK_SIZE)
              IN  IF ReachedQueue(u) /\ n >= 1
                  THEN /\ last'.block = SubSeq(queue, 1, k)
                       /\ user_state'[u].queue = SubSeq(queue, k + 1, n)
                  ELSE last'.block = <<>>]_vars

\* A full block was popped from the long page and the rest stayed queued
C9_Witness ==
    /\ Len(last.block) = BLOCK_SIZE
    /\ Len(user_state[last.user].queue) = LargePage - BLOCK_SIZE
    /\ LargePage > BLOCK_SIZE

\* C10 - Empty outcome distinction: a request that ends with an empty queue
\* says "nothing found" only if shown is empty, and says "no more new items"
\* whenever shown is not empty.  (Stated for requests that end with no fetch
\* in flight, when every item of shown has been queued.)
C10_EmptyOutcome ==
    (last.msg \in EmptyMsgs /\ ~user_state[last.user].is_fetching) =>
        (user_state[last.user].shown # {} => last.msg = "no_more")

\* The step just taken was the last send of a block: send_block is at line 334
BlockFinished == last.op \in {"photo_sent", "fallback_done"} /\ last.done

\* C11 - Continue affordance: after a block is delivered the "show more"
\* button is not offered if exhausted is true when the block finishes, and it
\* is offered if exhausted is false.
C11_OfferUnlessExhausted ==
    BlockFinished =>
        (last.msg = "offer_more" <=> ~user_state[last.user].fetch_exhausted)

\* C11 as the code has it: the button is offered after a block exactly when
\* exhausted is false at that moment and at least one photo of the block was
\* sent; a block whose photos all failed gets no button.
C11_OfferAfterSentPhoto ==
    BlockFinished =>
        (last.msg = "offer_more" <=>
            (~user_state[last.user].fetch_exhausted /\ last.sent > 0))

\* A block with photos sent has finished on an exhausted session
C11_Witness ==
    /\ BlockFinished
    /\ last.sent > 0
    /\ user_state[last.user].fetch_exhausted

\* C12 - Per-item delivery failure: when the send of one item of a block
\* fails, the other items of the block are still attempted in order; when
\* the block finishes every item popped for it, sent or not, is in shown,
\* and none of them is back in the queue.
C12_FailedItemHandled ==
    (BlockFinished /\ last.sent < Len(last.popped)) =>
        /\ last.tried = last.popped
        /\ Range(last.popped) \subseteq user_state[last.user].shown
        /\ Range(last.popped) \cap Range(user_state[last.user].queue) = {}

\* C13 - Refill guard: the Fetcher is invoked for a session only when, at
\* the moment the refill was triggered, fewer than MIN_QUEUE_THRESHOLD items
\* were queued, no fetch was in flight and the session was not exhausted; a
\* request that arrives with MIN_QUEUE_THRESHOLD or more items queued starts
\* no fetch.
C13_RefillGuard ==
    [][\A u \in DOMAIN user_state :
          last'.user = u =>
              LET a == user_state[u]
                  b == user_state'[u]
              IN  \* a refill task is made at lines 287 and 406 under the guard
                  /\ last'.spawned > 0 =>
                        /\ Len(b.queue) + Len(last'.block) < MIN_QUEUE_THRESHOLD
                        /\ ~b.is_fetching
                        /\ ~b.fetch_exhausted
                  \* a handler that invokes the Fetcher itself does so under the guard
                  /\ (last'.op = "search_continue" /\ last'.launched) => RefillWanted(a)
                  \* a refill task invokes it with no fetch in flight and budget left
                  /\ (last'.op = "refill_start" /\ last'.launched) =>
                        (~a.is_fetching /\ ~a.fetch_exhausted)
                  \* a request that finds the queue at the watermark starts nothing
                  /\ (last'.op \in {"search_continue", "more_continue"}
                        /\ Len(a.queue) >= MIN_QUEUE_THRESHOLD) =>
                        (~last'.launched /\ last'.spawned = 0)]_vars

\* C14 - shown covers the queue: in every reachable state, also after a
\* query change while a fetch is in flight, every item in the queue is a
\* member of shown.
C14_ShownCoversQueue ==
    \A u \in DOMAIN user_state :
        Range(user_state[u].queue) \subseteq user_state[u].shown

\* C15 - Failed fetch is normalized: a fetch that hits a fault raises
\* nothing into the handler and completes as "zero items, cursor unchanged".
\* Neither the fault nor the completion changes queue, shown or cursor (the
\* handler that goes on to send a block pops it from the unchanged queue);
\* the completion adds exactly 1 to the streak and clears the in-flight
\* marker, and the handler goes on to report its outcome.
C15_FaultNormalized ==
    [][\A u \in DOMAIN user_state :
          last'.user = u =>
              LET a == user_state[u]
                  b == user_state'[u]
              IN  /\ last'.op = "fetch_fault" => b = a
                  /\ (last'.op = "fetch_complete" /\ last'.faulted) =>
                        /\ last'.fetched = 0 /\ last'.merged = 0
                        /\ last'.block \o b.queue = a.queue
                        /\ b.shown = a.shown
                        /\ b.next_bookmark = a.next_bookmark
                        /\ b.fetch_attempts = a.fetch_attempts + 1
                        /\ ~b.is_fetching
                        /\ b.query = a.query /\ b.history = a.history
                        /\ b.fetch_exhausted = a.fetch_exhausted]_vars

\* A faulted fetch has completed inside handle_search with items still
\* queued, and the handler went on to send a block
C15_Witness ==
    /\ last.op = "fetch_complete"
    /\ last.faulted
    /\ last.block # <<>>

\* C16 - Fetch always completes and releases the mutex: under fairness every
\* launched fetch completes and is_fetching is cleared, also when the
\* send_block that waited for it has timed out or the query has changed
\* meanwhile.
C16_FetchCompletes ==
    \A u \in Users :
        (HasSession(u) /\ user_state[u].is_fetching /\ Fetching(u) = 1)
            ~> (HasSession(u) /\ ~user_state[u].is_fetching /\ Fetching(u) = 0)

\* The wait of send_block has timed out and the fetch is still in flight
C16_Witness ==
    /\ last.op = "wake"
    /\ last.waited = WAIT_POLLS
    /\ user_state[last.user].is_fetching
    /\ Fetching(last.user) = 1

\* C17 - Session independence: every step taken for one consumer (a query,
\* a button press, a fetch launch or completion, a step of a block) leaves
\* every field of every other consumer's session unchanged, and a session,
\* once made, stays.
C17_SessionIndependence ==
    [][/\ DOMAIN user_state \subseteq DOMAIN user_state'
       /\ \A u \in DOMAIN user_state :
              last'.user # u => user_state'[u] = user_state[u]]_vars

\* Consumer u2 has just been sent a block or its query has just been taken
\* while a fetch for consumer u1 is in flight and u1 has items
C17_Witness ==
    /\ last.user = "u2"
    /\ last.op \in {"handle_search", "fetch_complete", "photo_sent"}
    /\ HasSession("u1")
    /\ user_state["u1"].is_fetching
    /\ user_state["u1"].shown # {}
    /\ Fetching("u1") = 1

\* C18 - A handle_search invokes the Fetcher for the session's query before
\* it reports its outcome, also when a fetch for the previous query is in
\* flight when the query changes: it never says "nothing found" for a query
\* for which the Fetcher has not been invoked.
C18_FetchBeforeNothingFound ==
    (last.op = "search_continue" /\ last.msg = "nothing_found")
        => delivered[last.user].attempted

\* C19 - Streak bound: in every reachable state, under any interleaving of
\* requests, fetch completions and query changes, the failure streak of
\* every session is between 0 and MAX_FETCH_ATTEMPTS.
C19_StreakBound ==
    \A u \in DOMAIN user_state :
        /\ user_state[u].fetch_attempts >= 0
        /\ user_state[u].fetch_attempts <= MAX_FETCH_ATTEMPTS

\* A completion has just brought the streak to the bound
C19_Witness ==
    /\ last.op = "fetch_complete"
    /\ user_state[last.user].fetch_attempts = MAX_FETCH_ATTEMPTS
    /\ ~user_state[last.user].fetch_exhausted

\* C20 - Exhausted state consistency: in every reachable state where a
\* session's exhausted flag is true its failure streak equals
\* MAX_FETCH_ATTEMPTS and no fetch is in flight for it.
C20_ExhaustedConsistent ==
    \A u \in DOMAIN user_state :
        user_state[u].fetch_exhausted =>
            /\ user_state[u].fetch_attempts = MAX_FETCH_ATTEMPTS
            /\ ~user_state[u].is_fetching
            /\ Fetching(u) = 0

\* The button has been pressed on an exhausted session whose queue is empty
C20_Witness ==
    /\ last.op = "more_continue"
    /\ last.msg \in EmptyMsgs
    /\ user_state[last.user].fetch_exhausted

=============================================================================
